---------------------------- MODULE Spec2Model ----------------------------
(***************************************************************************)
(* Ledger and balance reconciliation engine of the finance tracker bot     *)
(* (src/main.py): the transactions table, the batch insert, the soft       *)
(* delete with balance recalculation and the "mark debt as paid" button.   *)
(*                                                                         *)
(* Amounts and balances are REAL columns in the source; they are modelled  *)
(* as integers (every amount used here is exactly representable, and the   *)
(* code only ever adds and subtracts them).  The columns description and   *)
(* debtor_name carry no meaning for the operations modelled and are left   *)
(* out of the rows.  Timestamps and due dates are day numbers: the source  *)
(* stores both as ISO texts of one format and one offset, whose text order *)
(* is the order of the days.                                               *)
(***************************************************************************)
EXTENDS Integers, Sequences, FiniteSets, TLC

(* ------------------------------ bounds -------------------------------- *)
\* Largest number of rows the transactions table may hold.
MaxTx == 3
\* Largest number of drafts in one batch.
MaxBatch == 2
\* Last day the clock reaches.
MaxDay == 2

(* ------------------------------ inputs -------------------------------- *)
UserIds == {1, 2}

\* Marker of a key that is absent from a draft (dict.get default applies).
Absent == "<absent>"
\* SQL NULL of the return_date column (dates are day numbers >= 1).
NULL == 0

\* Drafts the extraction collaborator hands over.
income_100 ==
  [type |-> "income", amount |-> 100, category |-> "Other", currency |-> Absent, return_date |-> NULL]
lent_30 ==
  [type |-> "Expense", amount |-> 30, category |-> "Debt", currency |-> "UZS", return_date |-> 1]
lent_50_usd ==
  [type |-> "expense", amount |-> 50, category |-> "Debt", currency |-> "usd", return_date |-> NULL]
\* A draft of a kind that is neither income nor expense.
transfer_30 ==
  [type |-> "transfer", amount |-> 30, category |-> "Other", currency |-> "UZS", return_date |-> NULL]
\* A draft in a currency the bot keeps no balance for.
income_30_eur ==
  [type |-> "income", amount |-> 30, category |-> "Other", currency |-> "EUR", return_date |-> NULL]
\* A draft with a negative amount.
expense_minus_30 ==
  [type |-> "expense", amount |-> -30, category |-> "Other", currency |-> "UZS", return_date |-> NULL]

\* Money lent until the day after the first one.
lent_100_later ==
  [type |-> "expense", amount |-> 100, category |-> "Debt", currency |-> "UZS", return_date |-> 2]
\* A draft that is not a debt and for which a return date was extracted.
other_30_dated ==
  [type |-> "expense", amount |-> 30, category |-> "Other", currency |-> "UZS", return_date |-> 1]

\* What each user's texts are extracted to.  User 1 writes all kinds of
\* texts; user 2, the second account, only lends money or writes a text of
\* unknown kind.
Drafts(user_id) ==
  IF user_id = 1 THEN {income_100, lent_30, lent_50_usd, transfer_30}
  ELSE {lent_30, transfer_30}

\* Texts among which one makes the insert loop raise.
DraftsFail(user_id) ==
  IF user_id = 1 THEN {income_100, lent_30, income_30_eur}
  ELSE {lent_30}

\* The same with the draft of negative amount.
DraftsInvalid(user_id) == Drafts(user_id) \cup (IF user_id = 1 THEN {expense_minus_30} ELSE {})

\* Texts about money lent, with and without a return date.
DraftsDue == {lent_100_later, lent_50_usd, other_30_dated}

\* Non-empty batches of at most n drafts out of D.
RECURSIVE BatchesUpTo(_, _)
BatchesUpTo(D, n) ==
  IF n = 0 THEN {}
  ELSE LET S == BatchesUpTo(D, n - 1)
       IN  S \cup {<<d>> : d \in D}
             \cup {Append(b, d) : b \in {x \in S : Len(x) = n - 1}, d \in D}

Batches == [user_id \in UserIds |-> BatchesUpTo(Drafts(user_id), MaxBatch)]
BatchesFail == [user_id \in UserIds |-> BatchesUpTo(DraftsFail(user_id), MaxBatch)]
BatchesInvalid == [user_id \in UserIds |-> BatchesUpTo(DraftsInvalid(user_id), MaxBatch)]
\* Each of these texts tells of one loan.
BatchesDue == {<<d>> : d \in DraftsDue}

(* ------------------------------- state -------------------------------- *)
VARIABLES
  users,         \* user_id column of the users table
  transactions,  \* committed rows of the transactions table, in id order
  last,          \* outcome of the last request handled
  repaid,        \* history: <<debt id, id of the repayment row appended for it>>
  now,           \* datetime.now(timezone.utc), as a day number
  due_debts,     \* the run of check_due_debts in progress, if any
  update_queue,  \* updates received and not yet dispatched to a handler
  running,       \* calls of add_multiple_transactions between read and write
  delivered      \* history: ids of the debts whose reminder Telegram accepted

vars == <<users, transactions, last, repaid, now, due_debts, update_queue, running, delivered>>

\* What a request handler never touches: the clock, the reminder job and
\* the dispatcher of the application.
loop == <<now, due_debts, update_queue, running, delivered>>

(* --------------------------- string helpers --------------------------- *)
\* str.lower() on the type strings that occur.
lower(s) ==
  CASE s = "Expense" -> "expense"
    [] s = "Income"  -> "income"
    [] OTHER         -> s

\* str.upper() on the currency strings that occur.
upper(s) ==
  CASE s = "usd" -> "USD"
    [] s = "uzs" -> "UZS"
    [] OTHER     -> s

(* ------------------------------ queries ------------------------------- *)
Rows(t) == {t[i] : i \in DOMAIN t}

MaxOf(S) == CHOOSE x \in S : \A y \in S : y <= x

RowById(t, id) == CHOOSE r \in Rows(t) : r.id = id

\* Mutant of lastrowid: the id is taken from the rows that are not deleted.
lastrowid_reusing_deleted(t) ==
  IF {r \in Rows(t) : r.is_deleted = 0} = {} THEN 1
  ELSE MaxOf({r.id : r \in {q \in Rows(t) : q.is_deleted = 0}}) + 1

\* AUTOINCREMENT: one more than the largest id ever stored.
lastrowid(t) == IF t = <<>> THEN 1 ELSE MaxOf({r.id : r \in Rows(t)}) + 1

\* Mutant of get_last_balance: the filter is_deleted = 0 is missing.
get_last_balance_with_deleted(t, user_id, currency) ==
  LET S == {r \in Rows(t) : r.user_id = user_id /\ r.currency = upper(currency)}
  IN  IF S = {} THEN 0
      ELSE (CHOOSE r \in S : \A q \in S : q.id <= r.id).balance

\* SELECT balance ... WHERE user_id = ? AND currency = ? AND is_deleted = 0
\* ORDER BY id DESC LIMIT 1
get_last_balance(t, user_id, currency) ==
  LET S == {r \in Rows(t) : /\ r.user_id = user_id
                            /\ r.currency = upper(currency)
                            /\ r.is_deleted = 0}
  IN  IF S = {} THEN 0
      ELSE (CHOOSE r \in S : \A q \in S : q.id <= r.id).balance

\* SELECT * FROM transactions WHERE user_id = ? AND is_deleted = 0
\* ORDER BY id DESC
RECURSIVE Descending(_)
Descending(S) ==
  IF S = {} THEN <<>>
  ELSE LET m == CHOOSE r \in S : \A q \in S : q.id <= r.id
       IN  <<m>> \o Descending(S \ {m})

\* Mutant of get_all_transactions: the filter is_deleted = 0 is missing.
get_all_transactions_with_deleted(t, user_id) ==
  Descending({r \in Rows(t) : r.user_id = user_id})

get_all_transactions(t, user_id) ==
  Descending({r \in Rows(t) : r.user_id = user_id /\ r.is_deleted = 0})

(* -------------------------- registration ------------------------------ *)
is_user_registered(user_id) == user_id \in users

\* Mutant of registration_gatekeeper: every user is let through.
registration_gatekeeper_open(user_id) == TRUE

\* Returns True exactly for a registered user; otherwise only a prompt is
\* sent and the handler returns.
registration_gatekeeper(user_id) == is_user_registered(user_id)

(* --------------------------- batch insert ----------------------------- *)
\* The for-loop of add_multiple_transactions runs on an accumulator:
\*   committed  what other connections (and a restarted process) see
\*   view       what this connection sees (its uncommitted inserts included)
\*   balances   the in-memory balance per currency
\*   ids        new_transaction_ids
\*   skipped    how many drafts the loop passed over with "continue"
\*   raised     an exception left the loop
StartBatch(t, user_id) ==
  [committed |-> t,
   view      |-> t,
   balances  |-> [c \in {"UZS", "USD"} |-> get_last_balance(t, user_id, c)],
   ids       |-> <<>>,
   skipped   |-> 0,
   raised    |-> FALSE]

\* Mutant of on_insert: the connection is in autocommit mode.
on_insert_autocommit(committed, view) == view

\* The committed table after an INSERT by a connection with the default
\* isolation level: the statement opens an implicit transaction, so nothing
\* is visible outside the connection until conn.commit().
on_insert(committed, view) == committed

\* Mutant of unknown_kind: a draft of unknown kind is an error.
unknown_kind_raises(acc) == [acc EXCEPT !.raised = TRUE]

\* The "else: continue" of the insert loop: the draft is passed over.
unknown_kind(acc) == [acc EXCEPT !.skipped = @ + 1]

\* Mutant of signed: the amount is added whatever the type.
signed_always_added(trans_type, amount) == amount

\* The sign a stored type gives an amount in the insert loop.
signed(trans_type, amount) == IF trans_type = "expense" THEN 0 - amount ELSE amount

\* One iteration of the loop "for trans in transactions".
InsertStep(acc, user_id, trans) ==
  LET amount     == trans.amount
      trans_type == lower(trans.type)
      currency   == upper(IF trans.currency = Absent THEN "UZS" ELSE trans.currency)
  IN  IF acc.raised THEN acc
      ELSE IF trans_type \notin {"expense", "income"}
           THEN unknown_kind(acc)
      ELSE IF currency \notin DOMAIN acc.balances
           THEN [acc EXCEPT !.raised = TRUE]
      ELSE LET bal  == acc.balances[currency] + signed(trans_type, amount)
               row  == [id          |-> lastrowid(acc.view),
                        user_id     |-> user_id,
                        date        |-> now,
                        type        |-> trans.type,
                        category    |-> trans.category,
                        amount      |-> amount,
                        currency    |-> currency,
                        balance     |-> bal,
                        return_date |-> trans.return_date,
                        notified    |-> 0,
                        debt_status |-> "open",
                        is_deleted  |-> 0]
               view == Append(acc.view, row)
           IN  [committed |-> on_insert(acc.committed, view),
                view      |-> view,
                balances  |-> [acc.balances EXCEPT ![currency] = bal],
                ids       |-> Append(acc.ids, row.id),
                skipped   |-> acc.skipped,
                raised    |-> FALSE]

\* The accumulator after the first n drafts of the batch.
RECURSIVE InsertLoop(_, _, _, _)
InsertLoop(t, user_id, batch, n) ==
  IF n = 0 THEN StartBatch(t, user_id)
  ELSE InsertStep(InsertLoop(t, user_id, batch, n - 1), user_id, batch[n])

\* add_multiple_transactions: the loop, then conn.commit().  When a draft
\* raises, the connection is dropped without commit and its inserts are gone.
add_multiple_transactions(t, user_id, batch) ==
  LET acc == InsertLoop(t, user_id, batch, Len(batch))
  IN  IF acc.raised
      THEN [table |-> acc.committed, raised |-> TRUE,  balances |-> acc.balances, ids |-> <<>>,
            inserted |-> Len(acc.ids), skipped |-> acc.skipped]
      ELSE [table |-> acc.view,      raised |-> FALSE, balances |-> acc.balances, ids |-> acc.ids,
            inserted |-> Len(acc.ids), skipped |-> acc.skipped]

\* The loop and the commit of add_multiple_transactions on a table t, with
\* the balances the call read when it started.
RECURSIVE InsertLoopFrom(_, _, _, _)
InsertLoopFrom(acc, user_id, batch, n) ==
  IF n = 0 THEN acc
  ELSE InsertStep(InsertLoopFrom(acc, user_id, batch, n - 1), user_id, batch[n])

add_multiple_transactions_from(t, user_id, batch, balances) ==
  LET acc == InsertLoopFrom([StartBatch(t, user_id) EXCEPT !.balances = balances],
                            user_id, batch, Len(batch))
  IN  IF acc.raised
      THEN [table |-> acc.committed, raised |-> TRUE,  ids |-> <<>>]
      ELSE [table |-> acc.view,      raised |-> FALSE, ids |-> acc.ids]

\* add_multiple_transactions cut short after n drafts by a storage failure
\* or a stop of the process: commit is never reached.
add_multiple_transactions_stopped(t, user_id, batch, n) ==
  InsertLoop(t, user_id, batch, n).committed

(* ---------------------- soft delete and recalculation ----------------- *)
\* Mutant of set_is_deleted: DELETE FROM transactions WHERE id = ?
set_is_deleted_hard(t, id) ==
  SelectSeq(t, LAMBDA r : r.id # id)

\* UPDATE transactions SET is_deleted = 1 WHERE id = ?
set_is_deleted(t, id) ==
  [i \in DOMAIN t |-> IF t[i].id = id THEN [t[i] EXCEPT !.is_deleted = 1] ELSE t[i]]

\* UPDATE transactions SET balance = ? WHERE id = ?
set_balance(t, id, balance) ==
  [i \in DOMAIN t |-> IF t[i].id = id THEN [t[i] EXCEPT !.balance = balance] ELSE t[i]]

\* Mutant of previous_balance: the filter is_deleted = 0 is missing.
previous_balance_with_deleted(t, user_id, currency, id) ==
  LET S == {r \in Rows(t) : /\ r.user_id = user_id
                            /\ r.currency = currency
                            /\ r.id < id}
  IN  IF S = {} THEN 0
      ELSE (CHOOSE r \in S : \A q \in S : q.id <= r.id).balance

\* SELECT balance ... WHERE user_id = ? AND currency = ? AND id < ?
\* AND is_deleted = 0 ORDER BY id DESC LIMIT 1, 0.0 when there is no row.
previous_balance(t, user_id, currency, id) ==
  LET S == {r \in Rows(t) : /\ r.user_id = user_id
                            /\ r.currency = currency
                            /\ r.id < id
                            /\ r.is_deleted = 0}
  IN  IF S = {} THEN 0
      ELSE (CHOOSE r \in S : \A q \in S : q.id <= r.id).balance

\* SELECT id, type, amount ... WHERE user_id = ? AND currency = ? AND id > ?
\* AND is_deleted = 0 ORDER BY id ASC
RECURSIVE Ascending(_)
Ascending(S) ==
  IF S = {} THEN <<>>
  ELSE LET m == CHOOSE r \in S : \A q \in S : r.id <= q.id
       IN  <<m>> \o Ascending(S \ {m})

\* Mutant of subsequent_transactions: the filter on currency is missing.
subsequent_transactions_any_currency(t, user_id, currency, id) ==
  Ascending({r \in Rows(t) : /\ r.user_id = user_id
                             /\ r.id > id
                             /\ r.is_deleted = 0})

\* Mutant of subsequent_transactions: the filter is_deleted = 0 is missing.
subsequent_transactions_with_deleted(t, user_id, currency, id) ==
  Ascending({r \in Rows(t) : /\ r.user_id = user_id
                             /\ r.currency = currency
                             /\ r.id > id})

subsequent_transactions(t, user_id, currency, id) ==
  Ascending({r \in Rows(t) : /\ r.user_id = user_id
                             /\ r.currency = currency
                             /\ r.id > id
                             /\ r.is_deleted = 0})

\* Mutant of resigned: the type is compared without lower().
resigned_without_lower(sub_type, sub_amount) ==
  IF sub_type = "expense" THEN 0 - sub_amount ELSE sub_amount

\* The sign the recalculation loop gives an amount: everything that is not
\* an expense is added.
resigned(sub_type, sub_amount) ==
  IF lower(sub_type) = "expense" THEN 0 - sub_amount ELSE sub_amount

\* The loop over subsequent_transactions, from its k-th element on.
RECURSIVE Recalculate(_, _, _, _)
Recalculate(t, subs, k, current_balance) ==
  IF k > Len(subs) THEN t
  ELSE LET b == current_balance + resigned(subs[k].type, subs[k].amount)
       IN  Recalculate(set_balance(t, subs[k].id, b), subs, k + 1, b)

\* Mutant of trans_to_delete_row: the filter is_deleted = 0 is missing.
trans_to_delete_row_with_deleted(t, user_id, transaction_id) ==
  {r \in Rows(t) : r.id = transaction_id /\ r.user_id = user_id}

\* SELECT * FROM transactions WHERE id = ? AND user_id = ? AND is_deleted = 0
\* of the delete.
trans_to_delete_row(t, user_id, transaction_id) ==
  {r \in Rows(t) : /\ r.id = transaction_id
                   /\ r.user_id = user_id
                   /\ r.is_deleted = 0}

\* delete_transaction_and_recalculate: BEGIN ... COMMIT; "Transaction not
\* found." is raised (and rolled back) when the SELECT returns no row.
delete_transaction_and_recalculate(t, user_id, transaction_id) ==
  LET found == trans_to_delete_row(t, user_id, transaction_id)
  IN  IF found = {} THEN [table |-> t, raised |-> TRUE]
      ELSE LET trans_to_delete == CHOOSE r \in found : TRUE
               t1   == set_is_deleted(t, transaction_id)
               cur  == trans_to_delete.currency
               base == previous_balance(t1, user_id, cur, transaction_id)
               subs == subsequent_transactions(t1, user_id, cur, transaction_id)
           IN  [table |-> Recalculate(t1, subs, 1, base), raised |-> FALSE]

\* Mutant of on_update: the BEGIN is missing, and with isolation_level None
\* every statement is committed as it is executed.
on_update_autocommit(committed, view) == view

\* The committed table after a statement between BEGIN and COMMIT: nothing
\* is visible outside the connection, and conn.rollback(), or the recovery
\* after a stop of the process, leaves the table as it was.
on_update(committed, view) == committed

\* delete_transaction_and_recalculate cut short after is_deleted was set and
\* the first k balances were rewritten: a statement fails in the storage
\* layer (except: conn.rollback(); raise) or the process stops.
delete_transaction_and_recalculate_stopped(t, user_id, transaction_id, k) ==
  LET trans_to_delete == CHOOSE r \in trans_to_delete_row(t, user_id, transaction_id) : TRUE
      t1   == set_is_deleted(t, transaction_id)
      cur  == trans_to_delete.currency
      base == previous_balance(t1, user_id, cur, transaction_id)
      subs == subsequent_transactions(t1, user_id, cur, transaction_id)
  IN  on_update(t, Recalculate(t1, SubSeq(subs, 1, k), 1, base))

(* ----------------------------- mark paid ------------------------------ *)
\* Mutant of debt_trans_row: the filter user_id = ? is missing.
debt_trans_row_of_any_user(t, user_id, transaction_id) ==
  {r \in Rows(t) : /\ r.id = transaction_id
                   /\ r.is_deleted = 0}

\* SELECT * FROM transactions WHERE id = ? AND user_id = ? AND is_deleted = 0
debt_trans_row(t, user_id, transaction_id) ==
  {r \in Rows(t) : /\ r.id = transaction_id
                   /\ r.user_id = user_id
                   /\ r.is_deleted = 0}

\* Mutant of can_mark_paid: the test of debt_status is missing.
can_mark_paid_any_status(t, user_id, transaction_id) ==
  debt_trans_row(t, user_id, transaction_id) # {}

\* The condition of the "debt paid" branch of button_handler.
can_mark_paid(t, user_id, transaction_id) ==
  /\ debt_trans_row(t, user_id, transaction_id) # {}
  /\ \A r \in debt_trans_row(t, user_id, transaction_id) : r.debt_status = "open"

\* Mutant of repayment_draft: the currency of the debt is not passed on.
repayment_draft_without_currency(debt_trans) ==
  [type        |-> "income",
   amount      |-> debt_trans.amount,
   category    |-> "Debt Repayment",
   currency    |-> Absent,
   return_date |-> NULL]

\* The draft the handler builds for the repayment.
repayment_draft(debt_trans) ==
  [type        |-> "income",
   amount      |-> debt_trans.amount,
   category    |-> "Debt Repayment",
   currency    |-> debt_trans.currency,
   return_date |-> NULL]

\* UPDATE transactions SET debt_status = 'paid' WHERE id = ?
set_debt_status_paid(t, id) ==
  [i \in DOMAIN t |-> IF t[i].id = id THEN [t[i] EXCEPT !.debt_status = "paid"] ELSE t[i]]

\* First write of the branch: the repayment is inserted and committed.
log_repayment(t, user_id, transaction_id) ==
  LET debt_trans == CHOOSE r \in debt_trans_row(t, user_id, transaction_id) : TRUE
  IN  add_multiple_transactions(t, user_id, <<repayment_draft(debt_trans)>>)

\* Both writes of the branch, in the order of the code.
mark_debt_paid(t, user_id, transaction_id) ==
  set_debt_status_paid(log_repayment(t, user_id, transaction_id).table, transaction_id)

(* ------------------------------ requests ------------------------------ *)
\* Ids a request may name: the stored ones and one that does not exist.
TxIds == 1..(Len(transactions) + 1)

\* What is remembered of the last ledger request: the operation and how it
\* ended; for a request that ran to its end also the user, the id it acted
\* on, the batch and what add_multiple_transactions returned; for a batch
\* insert the number of rows its connection inserted and of drafts skipped.
NoBalances == [c \in {"UZS", "USD"} |-> 0]

Outcome(op, outcome, user_id, id, batch, ids, balances, added, skipped) ==
  [op |-> op, outcome |-> outcome, user |-> user_id, id |-> id, batch |-> batch,
   ids |-> ids, balances |-> balances, added |-> added, skipped |-> skipped]

Failed(op, outcome) == Outcome(op, outcome, 0, 0, <<>>, <<>>, NoBalances, 0, 0)

\* The reminder job when it is not running.
NoJob == [rest |-> {}]

Init ==
  /\ users = {}
  /\ transactions = <<>>
  /\ last = Failed("none", "ok")
  /\ repaid = {}
  /\ now = 1
  /\ due_debts = NoJob
  /\ update_queue = <<>>
  /\ running = <<>>
  /\ delivered = {}

\* handle_contact: the user shares their own contact and is registered.
handle_contact(user_id) ==
  /\ user_id \notin users
  /\ users' = users \cup {user_id}
  /\ UNCHANGED <<transactions, last, repaid>>
  /\ UNCHANGED loop

\* handle_text_message with a text the extractor turns into a non-empty
\* batch: process_natural_language_text calls add_multiple_transactions.
handle_text_message(user_id, batch) ==
  /\ Len(transactions) + Len(batch) <= MaxTx
  /\ UNCHANGED loop
  /\ IF ~registration_gatekeeper(user_id)
     THEN /\ last' = Failed("append", "gated")
          /\ UNCHANGED <<users, transactions, repaid>>
     ELSE LET R == add_multiple_transactions(transactions, user_id, batch)
          IN  /\ transactions' = R.table
              /\ last' = IF R.raised
                         THEN Outcome("append", "raised", 0, 0, <<>>, <<>>, NoBalances,
                                      R.inserted, R.skipped)
                         ELSE Outcome("append", "ok", user_id, 0, batch, R.ids, R.balances,
                                      R.inserted, R.skipped)
              /\ UNCHANGED <<users, repaid>>

\* button_handler, action "undo": every exception of the delete is caught
\* and answered with a failure notice.
button_undo(user_id, transaction_id) ==
  /\ UNCHANGED loop
  /\ IF ~registration_gatekeeper(user_id)
     THEN /\ last' = Failed("delete", "gated")
          /\ UNCHANGED <<users, transactions, repaid>>
     ELSE LET R == delete_transaction_and_recalculate(transactions, user_id, transaction_id)
          IN  /\ transactions' = R.table
              /\ last' = IF R.raised THEN Failed("delete", "raised")
                         ELSE Outcome("delete", "ok", user_id, transaction_id, <<>>, <<>>,
                                      NoBalances, 0, 0)
              /\ UNCHANGED <<users, repaid>>

\* The repayments a "debt_paid" request logs, as <<debt id, repayment id>>.
Repayments(user_id, transaction_id) ==
  LET ids == log_repayment(transactions, user_id, transaction_id).ids
  IN  {<<transaction_id, ids[k]>> : k \in DOMAIN ids}

\* button_handler, action "debt_paid".
button_debt_paid(user_id, transaction_id) ==
  /\ UNCHANGED loop
  /\ IF ~registration_gatekeeper(user_id)
     THEN /\ last' = Failed("paid", "gated")
          /\ UNCHANGED <<users, transactions, repaid>>
     ELSE IF can_mark_paid(transactions, user_id, transaction_id)
     THEN /\ Len(transactions) < MaxTx
          /\ transactions' = mark_debt_paid(transactions, user_id, transaction_id)
          /\ repaid' = repaid \cup Repayments(user_id, transaction_id)
          /\ last' = Outcome("paid", "ok", user_id, transaction_id, <<>>,
                             log_repayment(transactions, user_id, transaction_id).ids,
                             NoBalances, 1, 0)
          /\ UNCHANGED users
     ELSE /\ last' = Failed("paid",
                            IF debt_trans_row(transactions, user_id, transaction_id) = {}
                            THEN "no_row" ELSE "not_open")
          /\ UNCHANGED <<users, transactions, repaid>>

Next ==
  \/ \E u \in UserIds : handle_contact(u)
  \/ \E u \in UserIds : \E b \in Batches[u] : handle_text_message(u, b)
  \/ \E u \in UserIds, id \in TxIds : button_undo(u, id)
  \/ \E u \in UserIds, id \in TxIds : button_debt_paid(u, id)

Spec == Init /\ [][Next]_vars

(* ------------------ texts with a negative amount ---------------------- *)
NextInvalid ==
  \/ \E u \in UserIds : handle_contact(u)
  \/ \E u \in UserIds : \E b \in BatchesInvalid[u] : handle_text_message(u, b)
  \/ \E u \in UserIds, id \in TxIds : button_undo(u, id)
  \/ \E u \in UserIds, id \in TxIds : button_debt_paid(u, id)

SpecInvalid == Init /\ [][NextInvalid]_vars

(* --------------------- requests that do not complete ------------------ *)
\* add_multiple_transactions is cut short after n drafts: a statement fails
\* in the storage layer, or the process stops, before conn.commit().
handle_text_message_stopped(user_id, batch, n) ==
  /\ registration_gatekeeper(user_id)
  /\ Len(transactions) + Len(batch) <= MaxTx
  /\ LET acc == InsertLoop(transactions, user_id, batch, n)
     IN  /\ ~acc.raised
         /\ transactions' = add_multiple_transactions_stopped(transactions, user_id, batch, n)
         /\ last' = Outcome("append", "stopped", 0, 0, <<>>, <<>>, NoBalances,
                            Len(acc.ids), acc.skipped)
  /\ UNCHANGED <<users, repaid>>
  /\ UNCHANGED loop

\* button_handler, action "undo", when the delete is cut short after k of
\* the later rows of the stream were rewritten.
button_undo_stopped(user_id, transaction_id, k) ==
  /\ registration_gatekeeper(user_id)
  /\ trans_to_delete_row(transactions, user_id, transaction_id) # {}
  /\ LET T == RowById(transactions, transaction_id)
     IN  k <= Len(subsequent_transactions(transactions, user_id, T.currency, transaction_id))
  /\ transactions' =
       delete_transaction_and_recalculate_stopped(transactions, user_id, transaction_id, k)
  /\ last' = Outcome("delete", "stopped", 0, 0, <<>>, <<>>, NoBalances, k, 0)
  /\ UNCHANGED <<users, repaid>>
  /\ UNCHANGED loop

\* Batches with a draft that raises, and batches that are cut short.
NextFail ==
  \/ \E u \in UserIds : handle_contact(u)
  \/ \E u \in UserIds : \E b \in BatchesFail[u] : handle_text_message(u, b)
  \/ \E u \in UserIds, id \in TxIds : button_undo(u, id)
  \/ \E u \in UserIds, id \in TxIds : button_debt_paid(u, id)
  \/ \E u \in UserIds : \E b \in BatchesFail[u] : \E n \in 0..Len(b) :
        handle_text_message_stopped(u, b, n)
  \/ \E u \in UserIds, id \in TxIds : \E k \in 0..MaxTx : button_undo_stopped(u, id, k)

SpecFail == Init /\ [][NextFail]_vars

\* The "debt_paid" branch ends between its two writes: the repayment was
\* committed by add_multiple_transactions, then the UPDATE of debt_status
\* fails or the process stops before it.
button_debt_paid_stopped(user_id, transaction_id) ==
  /\ registration_gatekeeper(user_id)
  /\ can_mark_paid(transactions, user_id, transaction_id)
  /\ Len(transactions) < MaxTx
  /\ transactions' = log_repayment(transactions, user_id, transaction_id).table
  /\ repaid' = repaid \cup Repayments(user_id, transaction_id)
  /\ last' = Outcome("paid", "stopped", user_id, transaction_id, <<>>,
                     log_repayment(transactions, user_id, transaction_id).ids,
                     NoBalances, 1, 0)
  /\ UNCHANGED users
  /\ UNCHANGED loop

NextStop ==
  \/ \E u \in UserIds : handle_contact(u)
  \/ \E u \in UserIds : \E b \in Batches[u] : handle_text_message(u, b)
  \/ \E u \in UserIds, id \in TxIds : button_undo(u, id)
  \/ \E u \in UserIds, id \in TxIds : button_debt_paid(u, id)
  \/ \E u \in UserIds, id \in TxIds : button_debt_paid_stopped(u, id)

SpecStop == Init /\ [][NextStop]_vars

(* --------------------------- expense summary -------------------------- *)
\* SUM(amount) over a set of rows.
RECURSIVE SumAmount(_)
SumAmount(S) ==
  IF S = {} THEN 0
  ELSE LET r == CHOOSE x \in S : TRUE IN r.amount + SumAmount(S \ {r})

\* SELECT category, currency, SUM(amount) FROM transactions WHERE user_id = ?
\* AND date BETWEEN ? AND ? AND type = ? AND is_deleted = 0
\* GROUP BY category, currency: the groups, before ORDER BY.  The comparison
\* type = ? is one of texts, letter by letter.
get_transactions_for_period(t, user_id, start_date, end_date, trans_type) ==
  LET S == {r \in Rows(t) : /\ r.user_id = user_id
                            /\ start_date <= r.date /\ r.date <= end_date
                            /\ r.type = trans_type
                            /\ r.is_deleted = 0}
  IN  {[category |-> r.category, currency |-> r.currency,
        total |-> SumAmount({q \in S : q.category = r.category /\ q.currency = r.currency})]
         : r \in S}

\* ORDER BY SUM(amount) DESC: the orders the groups may come back in.
OrderedByTotal(G) ==
  {seq \in [1..Cardinality(G) -> G] :
     /\ \A g \in G : \E k \in DOMAIN seq : seq[k] = g
     /\ \A i, j \in DOMAIN seq : i < j => seq[i].total >= seq[j].total}

\* A day passes.
tick ==
  /\ now < MaxDay
  /\ now' = now + 1
  /\ UNCHANGED <<users, transactions, last, repaid, due_debts, update_queue, running, delivered>>

\* The periods parse_timeframe_to_dates yields: today, and the months and
\* years of the buttons, in days.
Periods == {<<s, e>> \in (1..MaxDay) \X (1..MaxDay) : s <= e}

\* button_handler, action "summary_generate": generate_and_send_summary
\* asks for the expenses of the period.
generate_and_send_summary(user_id, start_date, end_date) ==
  /\ registration_gatekeeper(user_id)
  /\ \E records \in OrderedByTotal(
          get_transactions_for_period(transactions, user_id, start_date, end_date, "expense")) :
       last' = Outcome("summary", "ok", user_id, 0, records, <<start_date, end_date>>,
                       NoBalances, 0, 0)
  /\ UNCHANGED <<users, transactions, repaid>>
  /\ UNCHANGED loop

\* Texts of one draft each, in both currencies and both spellings of the
\* type.
BatchesPeriod == {<<income_100>>, <<lent_30>>, <<lent_50_usd>>, <<other_30_dated>>}

NextPeriod ==
  \/ \E u \in UserIds : handle_contact(u)
  \/ \E u \in UserIds : \E b \in BatchesPeriod : handle_text_message(u, b)
  \/ \E u \in UserIds, id \in TxIds : button_undo(u, id)
  \/ tick
  \/ \E u \in UserIds : \E p \in Periods : generate_and_send_summary(u, p[1], p[2])

SpecPeriod == Init /\ [][NextPeriod]_vars

(* --------------------------- the reminder job ------------------------- *)
\* Mutant of due_debts_query: the filter notified = 0 is missing.
due_debts_query_with_notified(t, today_str) ==
  {r \in Rows(t) : /\ r.category = "Debt"
                   /\ r.return_date # NULL /\ r.return_date <= today_str
                   /\ r.is_deleted = 0
                   /\ r.debt_status = "open"}

\* Mutant of due_debts_query: the filter is_deleted = 0 is missing.
due_debts_query_with_deleted(t, today_str) ==
  {r \in Rows(t) : /\ r.category = "Debt"
                   /\ r.return_date # NULL /\ r.return_date <= today_str
                   /\ r.notified = 0
                   /\ r.debt_status = "open"}

\* SELECT id, user_id, debtor_name, amount, currency FROM transactions
\* WHERE category = 'Debt' AND return_date <= ? AND notified = 0
\* AND is_deleted = 0 AND debt_status = 'open'; a comparison with NULL
\* selects nothing.
due_debts_query(t, today_str) ==
  {r \in Rows(t) : /\ r.category = "Debt"
                   /\ r.return_date # NULL /\ r.return_date <= today_str
                   /\ r.notified = 0
                   /\ r.is_deleted = 0
                   /\ r.debt_status = "open"}

\* UPDATE transactions SET notified = 1 WHERE id = ?
set_notified(t, id) ==
  [i \in DOMAIN t |-> IF t[i].id = id THEN [t[i] EXCEPT !.notified = 1] ELSE t[i]]

\* The ids of a set of rows, in ascending order.
IdsOf(S) == [k \in 1..Cardinality(S) |-> Ascending(S)[k].id]

\* The days a run of the job falls on: the return date of the loans and
\* the day before it.
Days == {1, 2}

\* check_due_debts up to conn.close(): the job queue starts a run (the
\* scheduler keeps one instance of the job) and the run fetches the debts
\* due on the day of the run, which is left free.
check_due_debts(today_str) ==
  /\ due_debts.rest = {}
  /\ due_debts' = [rest |-> {r.id : r \in due_debts_query(transactions, today_str)}]
  /\ last' = Outcome("scan", "ok", 0, today_str, <<>>,
                     IdsOf(due_debts_query(transactions, today_str)), NoBalances, 0, 0)
  /\ UNCHANGED <<users, transactions, repaid, now, update_queue, running, delivered>>

\* One turn of the loop over due_debts: the reminder is sent and, on a
\* connection of its own, notified is set.  The rows come back in no
\* stated order, so any of those left is the next.
check_due_debts_remind(debt_id) ==
  /\ debt_id \in due_debts.rest
  /\ due_debts' = [rest |-> due_debts.rest \ {debt_id}]
  /\ transactions' = set_notified(transactions, debt_id)
  /\ last' = Outcome("remind", "ok", 0, debt_id, <<>>, <<>>, NoBalances, 0, 0)
  /\ delivered' = delivered \cup {debt_id}
  /\ UNCHANGED <<users, repaid, now, update_queue, running>>

\* Mutant of check_due_debts_send_fails: notified is set although
\* send_message raised.
check_due_debts_send_fails_marked(debt_id) ==
  /\ debt_id \in due_debts.rest
  /\ due_debts' = [rest |-> due_debts.rest \ {debt_id}]
  /\ transactions' = set_notified(transactions, debt_id)
  /\ last' = Outcome("remind", "failed", 0, debt_id, <<>>, <<>>, NoBalances, 0, 0)
  /\ UNCHANGED <<users, repaid, now, update_queue, running, delivered>>

\* One turn of the loop in which send_message raises: the exception is
\* logged and the loop goes on.
check_due_debts_send_fails(debt_id) ==
  /\ debt_id \in due_debts.rest
  /\ due_debts' = [rest |-> due_debts.rest \ {debt_id}]
  /\ last' = Outcome("remind", "failed", 0, debt_id, <<>>, <<>>, NoBalances, 0, 0)
  /\ UNCHANGED <<users, transactions, repaid, now, update_queue, running, delivered>>

\* The handlers, serving user 1, and the reminder job, which yields to
\* them while a reminder is being sent.
NextDue ==
  \/ \E b \in BatchesDue : handle_text_message(1, b)
  \/ \E id \in TxIds : button_undo(1, id)
  \/ \E id \in TxIds : button_debt_paid(1, id)
  \/ \E today_str \in Days : check_due_debts(today_str)
  \/ \E id \in TxIds : check_due_debts_remind(id)
  \/ \E id \in TxIds : check_due_debts_send_fails(id)

\* User 1 has registered.
InitDue ==
  /\ users = {1}
  /\ transactions = <<>>
  /\ last = Failed("none", "ok")
  /\ repaid = {}
  /\ now = 1
  /\ due_debts = NoJob
  /\ update_queue = <<>>
  /\ running = <<>>
  /\ delivered = {}

SpecDue == InitDue /\ [][NextDue]_vars

(* ------------- the reminder job when a write of notified fails -------- *)
\* One turn of the loop in which send_message returns and the UPDATE of
\* notified or its commit raises, or the process stops before it: the
\* reminder went out and the row is as it was.
check_due_debts_update_fails(debt_id) ==
  /\ debt_id \in due_debts.rest
  /\ due_debts' = [rest |-> due_debts.rest \ {debt_id}]
  /\ delivered' = delivered \cup {debt_id}
  /\ last' = Outcome("remind", "unmarked", 0, debt_id, <<>>, <<>>, NoBalances, 0, 0)
  /\ UNCHANGED <<users, transactions, repaid, now, update_queue, running>>

NextRemind ==
  \/ NextDue
  \/ \E id \in TxIds : check_due_debts_update_fails(id)

\* run_repeating starts the job every hour and a run goes through its
\* list; a reminder that keeps being tried is delivered and marked in the
\* end.
FairRemind ==
  /\ \A today_str \in Days : WF_vars(check_due_debts(today_str))
  /\ \A id \in 1..MaxTx : SF_vars(check_due_debts_remind(id))

SpecRemind == InitDue /\ [][NextRemind]_vars /\ FairRemind

(* ----------------- updates, one handler at a time ---------------------- *)
\* The steps of the handlers as the event loop runs them.  An update waits
\* in the update queue until the application hands it to its handler; a
\* call of add_multiple_transactions first reads the balances (each on a
\* connection of its own) and then writes its rows and commits.
text_update(user_id, batch) ==
  [kind |-> "text", user |-> user_id, batch |-> batch, id |-> 0]

callback_update(kind, user_id, transaction_id) ==
  [kind |-> kind, user |-> user_id, batch |-> <<>>, id |-> transaction_id]

\* The updates that arrive: user 1 writes texts of one draft and presses
\* the buttons of any row; user 2 only writes that they lent money.
Updates ==
  {text_update(1, <<income_100>>), text_update(1, <<lent_30>>), text_update(2, <<lent_30>>)}
    \cup {callback_update(kind, 1, id) : kind \in {"undo", "paid"}, id \in 1..(Len(transactions) + 1)}

\* The updater puts an update into the queue, at any moment.  Updates are
\* processed in the order of their arrival and an arrival changes nothing
\* else, so the updates behind the first one waiting are left to arrive
\* later.
updater_receives(update) ==
  /\ update_queue = <<>>
  /\ update_queue' = Append(update_queue, update)
  /\ UNCHANGED <<users, transactions, last, repaid, now, due_debts, running, delivered>>

\* Mutant of may_process_update: updates are processed concurrently and a
\* call yields between its read and its write.
may_process_update_concurrently(calls) == TRUE

\* The application is built without concurrent_updates and the handlers
\* block: the next update is processed when the handler of the previous
\* one has returned, and the database functions never yield.
may_process_update(calls) == calls = <<>>

\* Rows the calls in progress are going to insert.
RECURSIVE Reserved(_)
Reserved(calls) ==
  IF calls = <<>> THEN 0 ELSE Len(Head(calls).batch) + Reserved(Tail(calls))

\* A call of add_multiple_transactions that has read the balances.
Call(user_id, batch, debt) ==
  [user |-> user_id, batch |-> batch, debt |-> debt,
   balances |-> StartBatch(transactions, user_id).balances]

\* The application takes the next update off the queue and runs its handler
\* up to the point where add_multiple_transactions has read the balances;
\* a delete runs to its end inside its BEGIN ... COMMIT.
process_update ==
  /\ update_queue # <<>>
  /\ may_process_update(running)
  /\ LET update == Head(update_queue)
         u      == update.user
         op     == CASE update.kind = "text" -> "append"
                     [] update.kind = "undo" -> "delete"
                     [] OTHER                -> "paid"
         note(outcome) == IF op = "delete"
                          THEN Outcome(op, outcome, u, update.id, <<>>, <<>>, NoBalances, 0, 0)
                          ELSE Failed(op, outcome)
     IN  /\ update_queue' = Tail(update_queue)
         /\ UNCHANGED <<users, repaid, now, due_debts, delivered>>
         /\ IF ~registration_gatekeeper(u)
            THEN last' = note("gated") /\ UNCHANGED <<transactions, running>>
            ELSE IF update.kind = "text"
            THEN /\ Len(transactions) + Reserved(running) + Len(update.batch) <= MaxTx
                 /\ running' = Append(running, Call(u, update.batch, 0))
                 /\ last' = note("read")
                 /\ UNCHANGED transactions
            ELSE IF update.kind = "undo"
            THEN LET R == delete_transaction_and_recalculate(transactions, u, update.id)
                 IN  /\ transactions' = R.table
                     /\ last' = note(IF R.raised THEN "raised" ELSE "ok")
                     /\ UNCHANGED running
            ELSE IF can_mark_paid(transactions, u, update.id)
            THEN /\ Len(transactions) + Reserved(running) < MaxTx
                 /\ running' = Append(running,
                        Call(u, <<repayment_draft(RowById(transactions, update.id))>>, update.id))
                 /\ last' = note("read")
                 /\ UNCHANGED transactions
            ELSE last' = note("refused") /\ UNCHANGED <<transactions, running>>

\* The k-th call in progress inserts its rows and commits; the handler of a
\* "debt paid" button then updates debt_status.
write_transactions(k) ==
  /\ k \in DOMAIN running
  /\ LET call == running[k]
         R    == add_multiple_transactions_from(transactions, call.user, call.batch,
                                                call.balances)
     IN  /\ transactions' = IF call.debt = 0 \/ R.raised THEN R.table
                            ELSE set_debt_status_paid(R.table, call.debt)
         /\ repaid' = IF call.debt = 0 THEN repaid
                      ELSE repaid \cup {<<call.debt, R.ids[i]>> : i \in DOMAIN R.ids}
         /\ last' = Failed(IF call.debt = 0 THEN "append" ELSE "paid",
                           IF R.raised THEN "raised" ELSE "written")
         /\ running' = SubSeq(running, 1, k - 1) \o SubSeq(running, k + 1, Len(running))
  /\ UNCHANGED <<users, now, due_debts, update_queue, delivered>>

NextLoop ==
  \/ \E u \in UserIds : handle_contact(u)
  \/ \E update \in Updates : updater_receives(update)
  \/ process_update
  \/ \E k \in DOMAIN running : write_transactions(k)

SpecLoop == Init /\ [][NextLoop]_vars

(* ====================================================================== *)
(* Properties                                                             *)
(* ====================================================================== *)
Currencies == {"UZS", "USD"}

\* The non-deleted rows of the (owner, currency) stream.
Live(t, u, c) == {r \in Rows(t) : r.user_id = u /\ r.currency = c /\ r.is_deleted = 0}

\* Income adds, Expense subtracts.
SignedAmount(r) ==
  IF r.type \in {"income", "Income"} THEN r.amount ELSE 0 - r.amount

\* The running balance of the non-deleted row before r in its stream, 0 if
\* r is the first one.
BalanceBefore(t, r) ==
  LET P == {q \in Live(t, r.user_id, r.currency) : q.id < r.id}
  IN  IF P = {} THEN 0 ELSE (CHOOSE q \in P : \A x \in P : x.id <= q.id).balance

RECURSIVE SumSigned(_)
SumSigned(S) ==
  IF S = {} THEN 0
  ELSE LET r == CHOOSE x \in S : TRUE IN SignedAmount(r) + SumSigned(S \ {r})

\* C1 (fold invariant I1/P1): in every (owner, currency) stream, each
\* non-deleted row's stored balance is the balance of the non-deleted row
\* before it (0 for the first) plus its own signed amount.
C1_FoldInvariant ==
  \A r \in Rows(transactions) :
    r.is_deleted = 0 => r.balance = BalanceBefore(transactions, r) + SignedAmount(r)

\* A delete has just re-folded a stream that holds two rows after the
\* deleted one, one of them the repayment of a debt marked paid.
C1_Witness ==
  /\ last.op = "delete" /\ last.outcome = "ok"
  /\ repaid # {}
  /\ \E d \in Rows(transactions) :
        /\ d.id = last.id /\ d.category = "Debt"
        /\ Cardinality({r \in Live(transactions, d.user_id, d.currency) : r.id > d.id}) >= 2

\* C2 (mid-stream delete reconciliation, P3): after softDelete of T, T is
\* marked deleted and absent from listActive, and every non-deleted row of
\* T's stream with a greater id carries the balance of the latest
\* non-deleted row before T (0 if none) plus the signed amounts of the
\* non-deleted rows after T up to and including itself.
C2_MidStreamDelete ==
  (last.op = "delete" /\ last.outcome = "ok") =>
    LET T      == RowById(transactions, last.id)
        active == get_all_transactions(transactions, T.user_id)
        tail   == {r \in Live(transactions, T.user_id, T.currency) : r.id > T.id}
    IN  /\ T.is_deleted = 1
        /\ \A k \in DOMAIN active : active[k].id # T.id
        /\ \A r \in tail :
             r.balance = BalanceBefore(transactions, T)
                           + SumSigned({q \in tail : q.id <= r.id})

\* Rows +100, -30, +100 of one stream held 100, 70, 170; the middle one has
\* just been deleted and the rows left hold 100 and 200.
C2_Witness ==
  /\ last.op = "delete" /\ last.outcome = "ok" /\ last.id = 2
  /\ Len(transactions) = 3
  /\ \A i \in 1..3 : transactions[i].user_id = 1 /\ transactions[i].currency = "UZS"
  /\ transactions[1].is_deleted = 0 /\ transactions[1].balance = 100
  /\ transactions[2].is_deleted = 1 /\ transactions[2].amount = 30
  /\ transactions[3].is_deleted = 0 /\ transactions[3].balance = 200

\* The effective currency of a draft.
DraftCurrency(d) == upper(IF d.currency = Absent THEN "UZS" ELSE d.currency)

\* The rows and the current balance of stream (u, c) are the same before
\* and after the step.
StreamUnchanged(u, c) ==
  /\ {r \in Rows(transactions') : r.user_id = u /\ r.currency = c}
       = {r \in Rows(transactions) : r.user_id = u /\ r.currency = c}
  /\ get_last_balance(transactions', u, c) = get_last_balance(transactions, u, c)

C3_Step ==
  /\ (last'.op = "append" /\ last'.outcome = "ok") =>
       \A X \in Currencies :
         (\A k \in DOMAIN last'.batch : DraftCurrency(last'.batch[k]) = X) =>
           \A Y \in Currencies \ {X} : StreamUnchanged(last'.user, Y)
  /\ (last'.op = "delete" /\ last'.outcome = "ok") =>
       \A Y \in Currencies \ {RowById(transactions, last'.id).currency} :
         StreamUnchanged(last'.user, Y)

\* C3 (currency isolation, I4/P4): a batch insert whose drafts are all of
\* currency X, and a soft delete of a row of currency X, leave the rows and
\* the current balance of the same owner's other currency unchanged.
C3_CurrencyIsolation == [][C3_Step]_vars

\* A UZS row has just been deleted while the same user holds a later,
\* non-deleted USD row.
C3_Witness ==
  /\ last.op = "delete" /\ last.outcome = "ok"
  /\ RowById(transactions, last.id).currency = "UZS"
  /\ \E r \in Live(transactions, last.user, "USD") : r.id > last.id

C4_Step ==
  \A u \in UserIds, id \in DOMAIN transactions :
    LET D == transactions[id]
        n == Len(transactions) + 1
    IN  ( /\ last'.op = "paid"
          /\ u \in users
          /\ D.user_id = u /\ D.is_deleted = 0
          /\ D.category = "Debt" /\ D.debt_status = "open"
          /\ button_debt_paid(u, id) )
        => /\ Len(transactions') = n
           /\ transactions'[n].user_id = u
           /\ transactions'[n].type = "income"
           /\ transactions'[n].category = "Debt Repayment"
           /\ transactions'[n].amount = D.amount
           /\ transactions'[n].currency = D.currency
           /\ transactions'[n].balance = get_last_balance(transactions, u, D.currency) + D.amount
           /\ transactions'[n].is_deleted = 0
           /\ transactions'[id] = [D EXCEPT !.debt_status = "paid"]
           /\ \A i \in DOMAIN transactions : i # id => transactions'[i] = transactions[i]

\* C4 (debt transition effect, P5 first half): marking an open, non-deleted
\* Debt row D of the requesting user as paid appends exactly one row: income,
\* "Debt Repayment", D's amount and currency, balance = the previous current
\* balance of that currency plus the amount; D's debt_status becomes paid and
\* nothing else of D or of any other row changes.
C4_DebtTransition == [][C4_Step]_vars

\* A USD debt has just been marked paid.
C4_Witness ==
  /\ last.op = "paid" /\ last.outcome = "ok"
  /\ RowById(transactions, last.id).category = "Debt"
  /\ RowById(transactions, last.id).currency = "USD"
  /\ RowById(transactions, last.id).debt_status = "paid"

C5_Step ==
  \A u \in UserIds, id \in DOMAIN transactions :
    (last'.op = "paid" /\ transactions[id].debt_status = "paid" /\ button_debt_paid(u, id))
      => /\ UNCHANGED <<transactions, repaid>>
         /\ last'.outcome \in {"gated", "no_row", "not_open"}

C5_AtMostOne ==
  \A id \in DOMAIN transactions : Cardinality({p \in repaid : p[1] = id}) <= 1

\* C5 (debt transition is not repeatable, P5 second half): a mark-paid
\* request for a row whose debt_status is already paid fails, appends no row
\* and changes no stored field; no row ever has more than one repayment
\* logged for it.
C5_NotRepeatable == [][C5_Step]_vars /\ []C5_AtMostOne

\* A mark-paid request has just been refused because the row it names,
\* found for its user, is not open any more.
C5_Witness ==
  /\ last.op = "paid" /\ last.outcome = "not_open"
  /\ repaid # {}

C6_Step ==
  \A u \in UserIds, id \in TxIds :
    ( /\ last'.op = "paid"
      /\ button_debt_paid(u, id)
      /\ IF id \notin DOMAIN transactions THEN TRUE
         ELSE \/ transactions[id].user_id # u
              \/ transactions[id].is_deleted = 1
              \/ transactions[id].category # "Debt" )
    => UNCHANGED <<transactions, repaid>>

\* C6 (mark-paid precondition): a mark-paid request for a row that does not
\* exist, belongs to another owner, is soft-deleted or is not of category
\* "Debt" appends no row and changes no debt_status.
C6_Precondition == [][C6_Step]_vars

\* C7 (mark-paid is one atomic unit): in every state a row's debt_status is
\* paid exactly if the repayment for it has been appended.
C7_Atomic ==
  \A id \in DOMAIN transactions :
    (transactions[id].debt_status = "paid") <=> (\E p \in repaid : p[1] = id)

AcceptedKind(d) == d.type \in {"income", "Income", "expense", "Expense"}

\* C8 (batch validation of amounts, P8 first half): after a batch insert the
\* returned ids are those of the drafts of accepted kind and positive amount,
\* in order, and no row with a non-positive amount is stored.
C8_PositiveAmounts ==
  /\ \A r \in Rows(transactions) : r.amount > 0
  /\ (last.op = "append" /\ last.outcome = "ok") =>
       LET valid == SelectSeq(last.batch, LAMBDA d : AcceptedKind(d) /\ d.amount > 0)
       IN  /\ Len(last.ids) = Len(valid)
           /\ \A k \in DOMAIN valid :
                RowById(transactions, last.ids[k]).amount = valid[k].amount

C9_Step ==
  (last'.op = "append" /\ last'.outcome \in {"raised", "stopped"}) =>
    /\ transactions' = transactions
    /\ \A u \in UserIds, c \in Currencies :
         get_last_balance(transactions', u, c) = get_last_balance(transactions, u, c)

\* C9 (batch atomicity, P8 second half): a batch insert that raises while
\* processing a draft, or is cut short by a storage failure, leaves the
\* stored rows and every current balance as they were before the call.
C9_BatchAtomicity == [][C9_Step]_vars

\* A batch was cut short after its connection had inserted a row.
C9_Witness ==
  /\ last.op = "append" /\ last.outcome = "stopped"
  /\ last.added >= 1

\* C10 (unknown kinds are skipped): a batch insert never fails because of a
\* draft of unknown kind; no such draft is stored; the returned ids are the
\* ids of the accepted drafts in input order, those rows being the newest of
\* the table; the returned balance of each currency is the user's current
\* balance after the call.
C10_SkipUnknownKinds ==
  /\ last.op = "append" => last.outcome \in {"ok", "gated"}
  /\ \A r \in Rows(transactions) : AcceptedKind(r)
  /\ (last.op = "append" /\ last.outcome = "ok") =>
       LET accepted == SelectSeq(last.batch, AcceptedKind)
           n        == Len(transactions) - Len(accepted)
       IN  /\ Len(last.ids) = Len(accepted)
           /\ last.skipped = Len(last.batch) - Len(accepted)
           /\ \A k \in DOMAIN accepted :
                /\ last.ids[k] = n + k
                /\ transactions[n + k].id = n + k
                /\ transactions[n + k].user_id = last.user
                /\ transactions[n + k].type = accepted[k].type
                /\ transactions[n + k].amount = accepted[k].amount
                /\ transactions[n + k].category = accepted[k].category
                /\ transactions[n + k].currency = DraftCurrency(accepted[k])
           /\ \A c \in Currencies :
                last.balances[c] = get_last_balance(transactions, last.user, c)

\* A batch with a draft of unknown kind has just been inserted: the draft
\* was skipped and another one stored.
C10_Witness ==
  /\ last.op = "append" /\ last.outcome = "ok"
  /\ last.skipped >= 1 /\ last.added >= 1

C11_Step ==
  ( /\ update_queue # <<>> /\ update_queue' = <<>>
    /\ Head(update_queue).kind = "undo"
    /\ Head(update_queue).user \in users
    /\ \A r \in Rows(transactions) :
         r.id = Head(update_queue).id =>
           (r.user_id # Head(update_queue).user \/ r.is_deleted = 1) )
  => /\ transactions' = transactions
     /\ last'.op = "delete" /\ last'.outcome = "raised"

\* C11 (softDelete of a missing row): a delete request of a registered user
\* for an id that is not stored, belongs to another user or is soft-deleted
\* already raises "Transaction not found." and leaves every stored row as
\* it was; so a second delete of the same id fails and recalculates nothing.
C11_NotFound == [][C11_Step]_vars

\* A user has just asked again to delete a row of theirs that is deleted
\* already, while a later row of its stream is stored.
C11_Witness ==
  /\ last.op = "delete" /\ last.outcome = "raised"
  /\ \E T \in Rows(transactions) :
        /\ T.id = last.id /\ T.user_id = last.user /\ T.is_deleted = 1
        /\ \E r \in Live(transactions, T.user_id, T.currency) : r.id > T.id

C12_Step ==
  (last'.op = "delete" /\ last'.outcome \in {"stopped", "raised"}) =>
    transactions' = transactions

C12_NoPartial ==
  \A T \in Rows(transactions) :
    T.is_deleted = 1 =>
      \A r \in Live(transactions, T.user_id, T.currency) :
        r.id > T.id => r.balance = BalanceBefore(transactions, r) + SignedAmount(r)

\* C12 (softDelete is all-or-nothing): a delete that fails after the target
\* was marked deleted, at any point of the walk over the later rows, leaves
\* is_deleted and every balance as before the request; in no state is a row
\* deleted while a later row of its stream carries a balance that still
\* counts it.
C12_AllOrNothing == [][C12_Step]_vars /\ []C12_NoPartial

\* A delete has just been cut short after it had marked its row deleted
\* and rewritten the balance of a later row.
C12_Witness ==
  /\ last.op = "delete" /\ last.outcome = "stopped"
  /\ last.added >= 1

\* C13 (id monotonicity, I2/P7): the rows, in the order of their creation,
\* carry strictly increasing ids, so no two rows share an id and the ids of
\* one owner increase; the ids a batch insert returns are strictly
\* increasing and greater than the id of every row stored before, deleted
\* or not and of whatever owner.
C13_IdMonotone ==
  /\ \A i, j \in DOMAIN transactions : i < j => transactions[i].id < transactions[j].id
  /\ (last.op = "append" /\ last.outcome = "ok") =>
       /\ \A i, j \in DOMAIN last.ids : i < j => last.ids[i] < last.ids[j]
       /\ \A k \in DOMAIN last.ids, r \in Rows(transactions) :
            r.id \notin {last.ids[i] : i \in DOMAIN last.ids} => r.id < last.ids[k]

\* A user has just stored a row after their newest row had been deleted,
\* while another user's row is stored before both.
C13_Witness ==
  /\ last.op = "append" /\ last.outcome = "ok" /\ Len(last.ids) = 1
  /\ Len(transactions) = 3
  /\ transactions[1].user_id # last.user
  /\ transactions[2].user_id = last.user /\ transactions[2].is_deleted = 1
  /\ transactions[3].id = last.ids[1]

\* C14 (serialization on a stream): with updates arriving while a call of
\* add_multiple_transactions, a delete or the repayment of a "debt paid"
\* button is in progress, every stored balance of a non-deleted row is the
\* sum of the signed amounts of the non-deleted rows of its stream up to
\* and including it: no balance is computed from a value that another
\* operation has replaced in the meantime.
C14_Serialized ==
  \A r \in Rows(transactions) :
    r.is_deleted = 0 =>
      r.balance = SumSigned({q \in Live(transactions, r.user_id, r.currency) : q.id <= r.id})

\* A call has read the balances of a user and has not written yet, while
\* an update of the same user waits that deletes a row of the stream the
\* call is going to append to.
C14_Witness ==
  /\ running # <<>> /\ update_queue # <<>>
  /\ Head(update_queue).user = running[1].user
  /\ Head(update_queue).kind = "undo"
  /\ \E r \in Live(transactions, running[1].user, DraftCurrency(running[1].batch[1])) :
        r.id = Head(update_queue).id

\* The draft that repeats a stored row: same kind, amount and currency.
SameDraft(r) ==
  [type |-> r.type, amount |-> r.amount, category |-> r.category,
   currency |-> r.currency, return_date |-> r.return_date]

\* The table after the newest non-deleted row of stream (u, c) was deleted
\* and a draft repeating it was appended.
DeleteThenReinsert(t, u, c) ==
  LET S == Live(t, u, c)
      T == CHOOSE r \in S : \A q \in S : q.id <= r.id
  IN  add_multiple_transactions(delete_transaction_and_recalculate(t, u, T.id).table,
                                u, <<SameDraft(T)>>).table

\* C15 (delete then reinsert, P2): in every reachable state and for every
\* stream with a non-deleted row, deleting the newest non-deleted row of
\* the stream and appending a draft of the same kind, amount and currency
\* gives the current balance of the stream that it had before the delete.
C15_DeleteThenReinsert ==
  \A u \in UserIds, c \in Currencies :
    Live(transactions, u, c) # {} =>
      get_last_balance(DeleteThenReinsert(transactions, u, c), u, c)
        = get_last_balance(transactions, u, c)

\* A user has just stored again the row they had deleted: the newest row
\* of the stream repeats the deleted row before it, on top of an older
\* row that is still counted.
C15_Witness ==
  /\ last.op = "append" /\ last.outcome = "ok" /\ Len(last.ids) = 1
  /\ Len(transactions) = 3
  /\ \A i \in 1..3 : transactions[i].user_id = last.user
                        /\ transactions[i].currency = transactions[3].currency
  /\ transactions[1].is_deleted = 0
  /\ transactions[2].is_deleted = 1
  /\ transactions[3].is_deleted = 0
  /\ transactions[3].type = transactions[2].type
  /\ transactions[3].amount = transactions[2].amount
  /\ transactions[3].balance = transactions[2].balance

\* The ids the last run of the job fetched.
Returned == {last.ids[k] : k \in DOMAIN last.ids}

C16_Step ==
  (due_debts.rest = {} /\ last'.op = "scan" /\ (last' # last \/ due_debts' # due_debts)) =>
    /\ transactions' = transactions /\ users' = users
    /\ {r.id : r \in due_debts_query(transactions', last'.id)}
         = {last'.ids[k] : k \in DOMAIN last'.ids}

C16_NotifiedExcluded ==
  last.op = "scan" => \A r \in Rows(transactions) : r.notified = 1 => r.id \notin Returned

\* C16 (due-scan idempotence, P6): the query of the due debts changes no
\* stored row, so a second query of the same day right after it returns
\* the same set; a row whose notified flag is set is not returned.
C16_ScanIdempotent == [][C16_Step]_vars /\ []C16_NotifiedExcluded

\* A run has just fetched a due debt while another debt, due as well, open
\* and not deleted, has been notified before and is left out.
C16_Witness ==
  /\ last.op = "scan" /\ Returned # {}
  /\ \E r \in Rows(transactions) :
        /\ r.notified = 1 /\ r.category = "Debt" /\ r.debt_status = "open"
        /\ r.is_deleted = 0 /\ r.return_date # NULL /\ r.return_date <= last.id

\* C17 (what the due scan returns): the rows a run fetches are exactly the
\* rows of category "Debt" that are open, not deleted, not notified and
\* have a return date on or before the day of the run; a debt that is
\* paid, deleted, undated or due later is not among them.
C17_ExactlyDue ==
  last.op = "scan" =>
    \A r \in Rows(transactions) :
      r.id \in Returned <=>
        /\ r.category = "Debt"
        /\ r.debt_status = "open"
        /\ r.is_deleted = 0
        /\ r.notified = 0
        /\ r.return_date # NULL
        /\ r.return_date <= last.id

\* A run has just fetched a due debt and left out a deleted debt that was
\* due as well and a row that is undated or not a debt.
C17_Witness ==
  /\ last.op = "scan" /\ Returned # {}
  /\ \E r \in Rows(transactions) :
        /\ r.category = "Debt" /\ r.is_deleted = 1
        /\ r.return_date # NULL /\ r.return_date <= last.id
  /\ \E r \in Rows(transactions) :
        r.is_deleted = 0 /\ (r.return_date = NULL \/ r.category # "Debt")

\* C18 (currentBalance): the current balance of an (owner, currency) stream
\* is the stored balance of its non-deleted row of greatest id, and 0 when
\* it has no non-deleted row, also when all its rows have been deleted;
\* after every sequence of requests it is the sum of the signed amounts of
\* the non-deleted rows of the stream.
C18_CurrentBalance ==
  \A u \in UserIds, c \in Currencies :
    LET S == Live(transactions, u, c)
    IN  /\ S = {} => get_last_balance(transactions, u, c) = 0
        /\ \A r \in S : (\A q \in S : q.id <= r.id)
                            => get_last_balance(transactions, u, c) = r.balance
        /\ get_last_balance(transactions, u, c) = SumSigned(S)

\* A user has just deleted the last row they had left: every row of the
\* stream is deleted, one of them stored with a balance other than 0.
C18_Witness ==
  /\ last.op = "delete" /\ last.outcome = "ok"
  /\ Len(transactions) >= 2
  /\ \A i \in DOMAIN transactions :
        /\ transactions[i].user_id = last.user
        /\ transactions[i].currency = transactions[1].currency
        /\ transactions[i].is_deleted = 1
  /\ \E i \in DOMAIN transactions : transactions[i].balance # 0

\* C19 (listActive): the history of a user lists exactly the user's rows
\* that are not deleted, each once, in strictly descending order of id; no
\* deleted row and no row of another user is in it.
C19_ListActive ==
  \A u \in UserIds :
    LET L == get_all_transactions(transactions, u)
    IN  /\ {L[k] : k \in DOMAIN L}
             = {r \in Rows(transactions) : r.user_id = u /\ r.is_deleted = 0}
        /\ \A i, j \in DOMAIN L : i < j => L[i].id > L[j].id
        /\ \A k \in DOMAIN L : L[k].user_id = u /\ L[k].is_deleted = 0

\* A user has just deleted the second of their three rows: their history
\* lists the third and the first.
C19_Witness ==
  /\ last.op = "delete" /\ last.outcome = "ok" /\ last.id = 2
  /\ Len(transactions) = 3
  /\ \A i \in 1..3 : transactions[i].user_id = last.user
  /\ Len(get_all_transactions(transactions, last.user)) = 2

\* The rows that count as expenses in the balances.
IsExpense(r) == lower(r.type) = "expense"

\* The user's non-deleted expenses of a category and a currency, dated in
\* the period.
ExpensesOf(u, category, currency, start_date, end_date) ==
  {r \in Rows(transactions) : /\ r.user_id = u /\ r.is_deleted = 0
                              /\ IsExpense(r)
                              /\ r.category = category /\ r.currency = currency
                              /\ start_date <= r.date /\ r.date <= end_date}

C20_Step ==
  (last'.op = "summary" /\ last' # last) => transactions' = transactions

C20_Groups ==
  last.op = "summary" =>
    LET records == last.batch
        from    == last.ids[1]
        to      == last.ids[2]
    IN  /\ \A r \in Rows(transactions) :
             (/\ r.user_id = last.user /\ r.is_deleted = 0 /\ IsExpense(r)
              /\ from <= r.date /\ r.date <= to)
               => \E k \in DOMAIN records :
                    /\ records[k].category = r.category
                    /\ records[k].currency = r.currency
        /\ \A k \in DOMAIN records :
             /\ ExpensesOf(last.user, records[k].category, records[k].currency, from, to) # {}
             /\ records[k].total =
                  SumAmount(ExpensesOf(last.user, records[k].category, records[k].currency,
                                       from, to))
        /\ \A i, j \in DOMAIN records :
             /\ i < j => records[i].total >= records[j].total
             /\ (i # j) => (records[i].category # records[j].category
                             \/ records[i].currency # records[j].currency)

\* C20 (aggregate): the summary of a period changes no stored row and
\* returns, in descending order of total, one record for every category
\* and currency in which the user has a non-deleted expense dated in the
\* period, with the sum of the amounts of those expenses: every row that
\* was subtracted from a balance as an expense is counted in it until it is
\* deleted.
C20_Aggregate == [][C20_Step]_vars /\ []C20_Groups

\* The table is kept in id order, so a row that stays keeps its place.
C21_Step ==
  /\ Len(transactions') >= Len(transactions)
  /\ \A i \in DOMAIN transactions :
       /\ transactions'[i].id = transactions[i].id
       /\ transactions[i].is_deleted = 1 => transactions'[i].is_deleted = 1
       /\ transactions[i].debt_status = "paid" => transactions'[i].debt_status = "paid"
       /\ transactions[i].notified = 1 => transactions'[i].notified = 1

\* C21 (lifecycle flags): no operation removes a stored row, and none
\* takes is_deleted from 1 back to 0, debt_status from 'paid' back to
\* 'open' or notified from 1 back to 0.
C21_FlagsMonotone == [][C21_Step]_vars

\* A loan was reminded of, marked paid and then deleted, and a request
\* was handled after that.
C21_Witness ==
  /\ \E r \in Rows(transactions) :
       r.notified = 1 /\ r.debt_status = "paid" /\ r.is_deleted = 1
  /\ last.op # "delete"

\* C22 (debt exclusivity): every stored row whose category is not 'Debt'
\* has debt_status 'open', notified 0 and no return date.
C22_DebtExclusivity ==
  \A r \in Rows(transactions) :
    r.category # "Debt" =>
      /\ r.debt_status = "open"
      /\ r.notified = 0
      /\ r.return_date = NULL

\* The application hands the waiting update to its handler.
Dispatched == update_queue # <<>> /\ update_queue' = Tail(update_queue)

C23_Step ==
  /\ (Dispatched /\ Head(update_queue).user \notin users)
       => /\ transactions' = transactions
          /\ running' = running
          /\ last'.outcome = "gated"
  /\ (transactions' # transactions)
       => IF Dispatched THEN Head(update_queue).user \in users
          ELSE running # <<>> /\ \A k \in DOMAIN running : running[k].user \in users

\* C23 (registration gate): a handler that appends transactions, deletes
\* one or marks a debt paid does so only after is_user_registered was true
\* of the sender in that request; a request of an unregistered user
\* creates, deletes and changes no transaction.
C23_RegistrationGate == [][C23_Step]_vars

\* User 1 has not registered and pressed "undo" on a row that user 2
\* stored: the request was turned away and the row is still there.
C23_Witness ==
  /\ 1 \notin users
  /\ last.op = "delete" /\ last.outcome = "gated" /\ last.user = 1
  /\ \E r \in Rows(transactions) : r.id = last.id /\ r.user_id = 2 /\ r.is_deleted = 0

\* A turn of the loop of check_due_debts: one debt leaves the list.
Turn == due_debts.rest # {} /\ due_debts'.rest # due_debts.rest

C24_Step ==
  /\ \A i \in DOMAIN transactions :
       (transactions[i].notified = 0 /\ transactions'[i].notified = 1)
         => /\ Turn
            /\ last'.op = "remind" /\ last'.outcome = "ok"
            /\ last'.id = transactions[i].id
            /\ last'.id \in due_debts.rest
  /\ (Turn /\ last'.outcome = "failed")
       => /\ transactions' = transactions
          /\ due_debts'.rest = due_debts.rest \ {last'.id}

C24_FailedStaysDue ==
  (last.op = "remind" /\ last.outcome = "failed") =>
    \A r \in Rows(transactions) :
      r.id = last.id =>
        /\ r.notified = 0
        /\ \A today_str \in Days :
             (r.return_date <= today_str /\ r.is_deleted = 0 /\ r.debt_status = "open")
               => r \in due_debts_query(transactions, today_str)

\* C24 (notified after delivery): notified is set only in the turn of the
\* loop whose send_message returned, and for the debt of that turn; when
\* send_message raises, the table is left as it was, the debt keeps
\* notified = 0 and is selected again by a later run while it stays open
\* and not deleted, and the debts left in the list are still gone through.
C24_NotifiedAfterDelivery == [][C24_Step]_vars /\ []C24_FailedStaysDue

\* The reminder of one of two due debts has just failed; the other one is
\* still to be sent.
C24_Witness ==
  /\ last.op = "remind" /\ last.outcome = "failed"
  /\ due_debts.rest # {}
  /\ \E r \in Rows(transactions) :
       r.id = last.id /\ r.notified = 0 /\ r.is_deleted = 0 /\ r.debt_status = "open"

\* The row differs from what it was in the balance at most.
SameButBalance(r, q) == q = [r EXCEPT !.balance = q.balance]

C25_Step ==
  (last'.op = "delete" /\ last'.outcome = "ok" /\ transactions' # transactions) =>
    /\ Len(transactions') = Len(transactions)
    /\ \E k \in DOMAIN transactions :
         LET T == transactions[k]
         IN  /\ T.id = last'.id
             /\ T.is_deleted = 0
             /\ transactions'[k] = [T EXCEPT !.is_deleted = 1]
             /\ \A i \in DOMAIN transactions \ {k} :
                  LET r == transactions[i]
                  IN  IF /\ r.id > T.id /\ r.is_deleted = 0
                         /\ r.user_id = T.user_id /\ r.currency = T.currency
                      THEN SameButBalance(r, transactions'[i])
                      ELSE transactions'[i] = r

\* C25 (reconciliation frame): a delete of T changes is_deleted of T and
\* the balance of the non-deleted rows after T in T's stream, and nothing
\* else: the balance of T, the rows before T, the rows deleted earlier,
\* the rows of other streams and the id, user_id, type, amount, currency
\* and category of every row stay as they were.
C25_ReconciliationFrame == [][C25_Step]_vars

\* The first of three rows of one stream has just been deleted after the
\* second one: the third row got a new balance and the second, deleted
\* earlier, kept the one it had.
C25_Witness ==
  /\ last.op = "delete" /\ last.outcome = "ok" /\ last.id = 1
  /\ Len(transactions) = 3
  /\ \A i \in 1..3 : /\ transactions[i].user_id = 1
                      /\ transactions[i].currency = "UZS"
  /\ transactions[1].is_deleted = 1
  /\ transactions[2].is_deleted = 1
  /\ transactions[3].is_deleted = 0
  /\ transactions[3].balance = SignedAmount(transactions[3])
  /\ transactions[2].balance # SignedAmount(transactions[2])

\* The rows of a user, in id order.
RowsOf(t, B) == SelectSeq(t, LAMBDA r : r.user_id = B)

\* Nothing of user B is changed by the step.
Untouched(B) ==
  /\ RowsOf(transactions', B) = RowsOf(transactions, B)
  /\ \A c \in Currencies :
       get_last_balance(transactions', B, c) = get_last_balance(transactions, B, c)

C26_Step ==
  /\ Dispatched => \A B \in UserIds \ {Head(update_queue).user} : Untouched(B)
  /\ (~Dispatched /\ running' # running)
       => \A B \in UserIds \ {running[k].user : k \in DOMAIN running} : Untouched(B)

\* C26 (owner isolation): a request of user A to append a batch, to delete
\* a transaction or to mark a debt paid changes no column of a row of
\* another user B and no current balance of B, whatever id A names.
C26_OwnerIsolation == [][C26_Step]_vars

\* User 1 has just asked to delete a row that user 2 stored and that is
\* not deleted: the request failed and user 2 has the balance of that row.
C26_Witness ==
  /\ last.op = "delete" /\ last.outcome = "raised" /\ last.user = 1
  /\ \E r \in Rows(transactions) :
       /\ r.id = last.id /\ r.user_id = 2 /\ r.is_deleted = 0
       /\ get_last_balance(transactions, 2, r.currency) = r.balance
       /\ r.balance # 0
  /\ \E r \in Rows(transactions) : r.user_id = 1

C27_Step ==
  (Turn /\ last'.op = "remind" /\ last'.outcome = "ok") =>
    \A r \in Rows(transactions) :
      r.id = last'.id =>
        /\ r.debt_status = "open"
        /\ r.is_deleted = 0
        /\ \A q \in Rows(transactions') : q.id = r.id => q.notified = 1

\* C27 (no stale reminder): whenever a reminder is delivered and notified
\* is set, the debt is open and not deleted at that moment, also when the
\* user marked it paid or deleted it after the run had fetched it.
C27_NoStaleReminder == [][C27_Step]_vars

\* The debt is stored, open, not deleted and due on a day a run falls on.
StaysDue(id) ==
  \E r \in Rows(transactions) :
    /\ r.id = id /\ r.category = "Debt"
    /\ r.debt_status = "open" /\ r.is_deleted = 0
    /\ r.return_date # NULL /\ \E today_str \in Days : r.return_date <= today_str

Notified(id) == \E r \in Rows(transactions) : r.id = id /\ r.notified = 1

C28_Live == \A id \in 1..MaxTx : (<>[]StaysDue(id)) => <>Notified(id)

C28_AtMostOnce ==
  (Turn /\ last'.op = "remind" /\ last'.outcome \in {"ok", "unmarked"})
    => last'.id \notin delivered

\* C28 (reminders): with the job run again and again and reminders that
\* are delivered in the end, every debt that stays open, not deleted and
\* due gets notified = 1, and no debt has a reminder delivered twice, also
\* when the write of notified fails after the delivery.
C28_Reminders == C28_Live /\ [][C28_AtMostOnce]_vars

=============================================================================
